---- MODULE Spec2Model ----
(***************************************************************************)
(* Model of the Web-Crawler-project collectors (go-collector): four API    *)
(* client scripts (NewsAPI, The Guardian, GDELT, X) and the RSS reader.    *)
(* Each script is one sequential run: build a request, perform it, decode  *)
(* the answer, count categorical fields, rank them with getTopN and print  *)
(* a short sample.                                                         *)
(***************************************************************************)
EXTENDS Integers, Sequences, FiniteSets, TLC

VARIABLES
    script,     \* which executable is running
    server,     \* API clients: how the remote side will treat the run's request
    pc,         \* position of main
    requests,   \* outbound HTTP calls issued so far
    net,        \* outcome of the latest HTTP call, as the client sees it
    fetched,    \* what the fetch operation returned: response, err, decode use
    tables,     \* frequency tables built by the report's counting loop
    n,          \* argument n of the latest getTopN call
    top,        \* result of the latest getTopN call
    sample,     \* records printed by the latest sample loop
    accessed,   \* 0-based indices read by the latest sample loop
    out,        \* what the run has written to stdout / the log, in order
    feedIdx,    \* RSS reader: 1-based position in the feed list
    attempted   \* RSS reader: the URLs handed to parser.ParseURL, in order

vars == <<script, server, pc, requests, net, fetched, tables, n, top, sample, accessed, out, feedIdx, attempted>>

----------------------------------------------------------------------------
(* Bounds of the model *)

\* longest record list a payload carries
MaxLen == 6
\* longest item list of an RSS feed
MaxItems == 4
\* largest n handed to getTopN under SpecTopN
MaxN == 4
\* longest record list counted under SpecTopN
MaxRecs == 6
\* bytes by which the longest response body exceeds the preview limit
MaxOver == 2

(* Program constants *)

\* rows of the sample loop of every API client
SampleSize == 5
\* rows printed per feed by the RSS reader
RSSLimit == 3
\* getTopN(fuentes, 10)
TopFuentes == 10
\* getTopN(dominios, 10)
TopDominios == 10
\* getTopN(secciones, 5)
TopSecciones == 5
\* http.StatusOK
StatusOK == 200
\* number of URLs in the feeds slice
NumFeeds == 5
\* len(preview) > 500, preview[:500]
PreviewLimit == 500

----------------------------------------------------------------------------
(* Go values *)

Min(a, b) == IF a < b THEN a ELSE b

Range(s) == {s[i] : i \in DOMAIN s}

\* make(map[string]int)
EmptyMap == [k \in {} |-> 0]

\* all sequences over S of length at most k
SeqsUpTo(S, k) == UNION {[1..l -> S] : l \in 0..k}

\* F applied to the value of v, v being evaluated once (Go evaluates an
\* argument before the call)
WithValue(v, F(_)) == CHOOSE r \in {F(x) : x \in {v}} : TRUE

\* the orders in which `range m` may visit the keys of a map
Orders(S) == {o \in [1..Cardinality(S) -> S] : \A i, j \in DOMAIN o : i # j => o[i] # o[j]}

----------------------------------------------------------------------------
(* Frequency table: m[key]++ *)

IncSkipEmpty(m, k) ==
    IF k = "" THEN m
    ELSE IF k \in DOMAIN m THEN [m EXCEPT ![k] = @ + 1] ELSE m @@ (k :> 1)

Inc(m, k) ==
    IF k \in DOMAIN m THEN [m EXCEPT ![k] = @ + 1] ELSE m @@ (k :> 1)

\* for _, art := range list { m[art.<field>]++ }
RECURSIVE CountFrom(_, _, _, _)
CountFrom(list, field, i, m) ==
    IF i > Len(list) THEN m
    ELSE WithValue(Inc(m, list[i][field]), LAMBDA m1 : CountFrom(list, field, i + 1, m1))

Count(list, field) == CountFrom(list, field, 1, EmptyMap)

----------------------------------------------------------------------------
(* getTopN *)

LessAscending(a, b) == a.Value < b.Value

\* the comparator handed to sort.Slice
Less(a, b) == a.Value > b.Value

\* kvList = append(kvList, KeyValue{k, v}) for k, v := range m, visiting in `order`
KvList(m, order) == [i \in DOMAIN order |-> [Key |-> order[i], Value |-> m[order[i]]]]

Swap(s, i, j) == [s EXCEPT ![i] = s[j], ![j] = s[i]]

\* inner loop of the insertion sort sort.Slice runs on short slices
RECURSIVE SiftDown(_, _)
SiftDown(s, j) ==
    IF j > 1 /\ Less(s[j], s[j - 1])
    THEN WithValue(Swap(s, j, j - 1), LAMBDA s1 : SiftDown(s1, j - 1))
    ELSE s

RECURSIVE InsertionSort(_, _)
InsertionSort(s, i) ==
    IF i > Len(s) THEN s
    ELSE WithValue(SiftDown(s, i), LAMBDA s1 : InsertionSort(s1, i + 1))

SortSliceNone(kv) == kv

\* sort.Slice(kvList, less)
SortSlice(kv) == InsertionSort(kv, 2)

TruncateOffByOne(kv, k) ==
    SubSeq(kv, 1, IF k >= Len(kv) THEN Len(kv) - 1 ELSE k)

\* if n > len(kvList) { n = len(kvList) }; return kvList[:n]
Truncate(kv, k) == SubSeq(kv, 1, IF k > Len(kv) THEN Len(kv) ELSE k)

getTopN(m, k, order) == Truncate(SortSlice(KvList(m, order)), k)

----------------------------------------------------------------------------
(* Records, payloads and what the network can answer *)

APIClients == {"newsapi", "guardian", "gdelt", "x"}
Scripts == APIClients \cup {"rss"}

\* NewsAPIArticle, by art.Source.Name
NewsArticles == {[SourceName |-> v] : v \in {"", "A"}}
\* GuardianArticle, by art.SectionName
GuardianArticles == {[SectionName |-> v] : v \in {"", "A"}}
\* GDELTArticle, by Domain, Language, SourceCountry
GDELTArticles ==
    { [Domain |-> "A", Language |-> "es", SourceCountry |-> "CO"],
      [Domain |-> "B", Language |-> "es", SourceCountry |-> ""],
      [Domain |-> "",  Language |-> "en", SourceCountry |-> "US"] }
\* Tweet, by ID
Tweets == {[ID |-> v] : v \in {"t1", "t2"}}
\* gofeed.Item, by Title
FeedItems == {[Title |-> v] : v \in {"i1", "i2"}}

RecordsOf(s) ==
    CASE s = "newsapi"  -> NewsArticles
      [] s = "guardian" -> GuardianArticles
      [] s = "gdelt"    -> GDELTArticles
      [] s = "x"        -> Tweets
      [] s = "rss"      -> FeedItems

\* status values a payload embeds (NewsAPI status, Guardian response.status)
StatusesOf(s) == IF s \in {"newsapi", "guardian"} THEN {"ok", "error", ""} ELSE {""}

\* meta.result_count of an X payload: absent (0) or the length of data
ResultCountsOf(s, list) == IF s = "x" THEN {0, Len(list)} ELSE {0}

\* a body json.Unmarshal accepts: the fields the client's struct reads
ValidBodies(s) ==
    UNION { { [valid |-> TRUE, status |-> st, list |-> l, resultCount |-> c,
               size |-> PreviewLimit + MaxOver] :
                st \in StatusesOf(s), c \in ResultCountsOf(s, l) } :
            l \in SeqsUpTo(RecordsOf(s), MaxLen) }

\* len(body) of the bodies io.ReadAll can hand back: empty, short, and the
\* lengths around the preview limit
BodySizes == {0, 1, PreviewLimit - 1} \cup (PreviewLimit .. PreviewLimit + MaxOver)

\* a body json.Unmarshal rejects; list holds the records read before the
\* failure (a record takes at least the two bytes of "{}"), size is len(body)
MalformedBodies(s) ==
    UNION { { [valid |-> FALSE, status |-> "", list |-> l, resultCount |-> 0, size |-> z] :
                z \in {y \in BodySizes : y >= 2 * Len(l)} } :
            l \in SeqsUpTo(RecordsOf(s), 1) }

NoBody == [valid |-> FALSE, status |-> "", list |-> <<>>, resultCount |-> 0, size |-> 0]

\* HTTP status codes the server answers with
StatusCodes == {200, 429, 500}

Pending == [state |-> "pending", cause |-> "none", code |-> 0, body |-> NoBody]

\* how the remote side can treat a request: hang or drop the connection,
\* before the headers (seen by Client.Do) or inside the body (seen by
\* io.ReadAll), or answer completely
Behaviours(s) ==
    { [state |-> st, cause |-> c, code |-> 0, body |-> NoBody] :
        st \in {"doError", "readError"}, c \in {"hang", "conn"} }
    \cup
    { [state |-> "answered", cause |-> "none", code |-> k, body |-> b] :
        k \in StatusCodes, b \in ValidBodies(s) \cup MalformedBodies(s) }

\* what parser.ParseURL hands back: an error or a feed with its items
FeedOutcomes ==
    { [state |-> "doError", cause |-> c, code |-> 0, body |-> NoBody] :
        c \in {"timeout", "conn"} }
    \cup
    { [state |-> "answered", cause |-> "none", code |-> StatusOK,
       body |-> [valid |-> TRUE, status |-> "", list |-> l, resultCount |-> 0,
                 size |-> PreviewLimit + MaxOver]] :
        l \in SeqsUpTo(FeedItems, MaxItems) }

----------------------------------------------------------------------------
(* The fetch operations.  Each returns (response, err); unmarshal records   *)
(* whether json.Unmarshal was called and how it ended.  An error is the     *)
(* sequence of words of its text.                                           *)

NilResponse == [isNil |-> TRUE, status |-> "", list |-> <<>>, resultCount |-> 0]

(* A string made of bytes of the response body is its number of leading    *)
(* bytes of the body (head) and the literal bytes appended to them (tail). *)

NoText == [head |-> 0, tail |-> <<>>]
\* string(body)
StringOf(body) == [head |-> body.size, tail |-> <<>>]
\* len(s)
ByteLen(s) == s.head + Len(s.tail)
\* s[:k]
Slice(s, k) ==
    IF k <= s.head THEN [head |-> k, tail |-> <<>>]
    ELSE [head |-> s.head, tail |-> SubSeq(s.tail, 1, k - s.head)]
\* s + lit
Concat(s, lit) == [s EXCEPT !.tail = @ \o lit]
\* "..."
Ellipsis == <<".", ".", ".">>

PreviewFromLimit(body) ==
    WithValue(StringOf(body), LAMBDA p :
        IF ByteLen(p) >= PreviewLimit THEN Concat(Slice(p, PreviewLimit), Ellipsis) ELSE p)

\* preview := string(body); if len(preview) > 500 { preview = preview[:500] + "..." }
Preview(body) ==
    WithValue(StringOf(body), LAMBDA p :
        IF ByteLen(p) > PreviewLimit THEN Concat(Slice(p, PreviewLimit), Ellipsis) ELSE p)

\* an error: the words of its text, and the preview its "<preview>" stands for
NilErr == [isNil |-> TRUE, msg |-> <<>>, preview |-> NoText]
NoFetch == [response |-> NilResponse, err |-> NilErr, unmarshal |-> "not called"]

\* return nil, fmt.Errorf(...)
Fail(msg, unmarshal) ==
    [response |-> NilResponse, err |-> [isNil |-> FALSE, msg |-> msg, preview |-> NoText],
     unmarshal |-> unmarshal]

\* return &apiResp, nil
Decoded(body) ==
    [response |-> [isNil |-> FALSE, status |-> body.status, list |-> body.list,
                   resultCount |-> body.resultCount],
     err |-> NilErr, unmarshal |-> "ok"]

\* fmt.Errorf("error en petición: %w", err)
ErrPeticion(r) == <<"error", "en", "peticion:", r.cause>>
\* fmt.Errorf("error leyendo respuesta: %w", err)
ErrLeyendo(r) == <<"error", "leyendo", "respuesta:", r.cause>>
\* fmt.Errorf("error HTTP: status code %d, body: %s", resp.StatusCode, string(body))
ErrHTTP(r) == <<"error", "HTTP:", "status", "code", ToString(r.code), "body:", "<body>">>
\* fmt.Errorf("error parseando JSON: %w. ...%s", err, preview)
ErrJSON(r) == <<"error", "parseando", "JSON:", "<syntax>", "Respuesta", "recibida", "<preview>">>

\* the return inside `if err := json.Unmarshal(body, &apiResp); err != nil`
FailJSON(r) == [Fail(ErrJSON(r), "failed") EXCEPT !.err.preview = Preview(r.body)]

EmbeddedStatusIgnored(status) == FALSE

\* apiResp.Status != "ok", apiResp.Response.Status != "ok"
EmbeddedStatusBad(status) == status # "ok"

\* NewsAPICrawler.BuscarArticulos from the return of n.Client.Do on
NewsBuscarArticulos(r) ==
    IF r.state = "doError" THEN Fail(ErrPeticion(r), "not called")
    ELSE IF r.state = "readError" THEN Fail(ErrLeyendo(r), "not called")
    ELSE IF ~r.body.valid THEN FailJSON(r)
    ELSE IF EmbeddedStatusBad(r.body.status)
         THEN Fail(<<"error", "de", "NewsAPI", "(Status:", r.body.status, ").", "<body>">>, "ok")
    ELSE Decoded(r.body)

\* GuardianCrawler.BuscarArticulos from the return of g.Client.Get on
GuardianBuscarArticulos(r) ==
    IF r.state = "doError" THEN Fail(ErrPeticion(r), "not called")
    ELSE IF r.state = "readError" THEN Fail(ErrLeyendo(r), "not called")
    ELSE IF r.code # StatusOK THEN Fail(ErrHTTP(r), "not called")
    ELSE IF ~r.body.valid THEN FailJSON(r)
    ELSE IF EmbeddedStatusBad(r.body.status)
         THEN Fail(<<"error", "de", "Guardian", "API", "(Status:", r.body.status, ").">>, "ok")
    ELSE Decoded(r.body)

GDELTKeepsPartialResponse(r) ==
    IF r.state = "doError" THEN Fail(ErrPeticion(r), "not called")
    ELSE IF r.state = "readError" THEN Fail(ErrLeyendo(r), "not called")
    ELSE IF r.code # StatusOK THEN Fail(ErrHTTP(r), "not called")
    ELSE IF ~r.body.valid
         THEN [FailJSON(r) EXCEPT !.response = Decoded(r.body).response]
    ELSE Decoded(r.body)

\* GDELTCrawler.BuscarArticulosMultiLang from the return of g.Client.Do on
GDELTBuscarArticulosMultiLang(r) ==
    IF r.state = "doError" THEN Fail(ErrPeticion(r), "not called")
    ELSE IF r.state = "readError" THEN Fail(ErrLeyendo(r), "not called")
    ELSE IF r.code # StatusOK THEN Fail(ErrHTTP(r), "not called")
    ELSE IF ~r.body.valid THEN FailJSON(r)
    ELSE Decoded(r.body)

\* XCrawler.BuscarTweets from the return of x.Client.Do on
XBuscarTweets(r) ==
    IF r.state = "doError" THEN Fail(ErrPeticion(r), "not called")
    ELSE IF r.state = "readError" THEN Fail(ErrLeyendo(r), "not called")
    ELSE IF r.code # StatusOK THEN Fail(ErrHTTP(r), "not called")
    ELSE IF ~r.body.valid THEN FailJSON(r)
    ELSE Decoded(r.body)

Buscar(s, r) ==
    CASE s = "newsapi"  -> NewsBuscarArticulos(r)
      [] s = "guardian" -> GuardianBuscarArticulos(r)
      [] s = "gdelt"    -> GDELTBuscarArticulosMultiLang(r)
      [] s = "x"        -> XBuscarTweets(r)

----------------------------------------------------------------------------
(* The report operations.  Each yields what it prints (out), the tables it  *)
(* built, its getTopN call and the sample it printed.                       *)

NoTables == [t \in {} |-> EmptyMap]

\* for i, art := range list { if i >= 5 { break }; print art }
RECURSIVE SampleLoop(_, _, _, _)
SampleLoop(list, i, printed, acc) ==
    IF i >= Len(list) THEN [printed |-> printed, accessed |-> acc]
    ELSE IF i >= SampleSize THEN [printed |-> printed, accessed |-> acc \cup {i}]
    ELSE SampleLoop(list, i + 1, Append(printed, list[i + 1]), acc \cup {i})

\* for i := 0; i < limit; i++ { item := feed.Items[i]; print item }
RECURSIVE ItemLoop(_, _, _, _, _)
ItemLoop(items, i, limit, printed, acc) ==
    IF i >= limit THEN [printed |-> printed, accessed |-> acc]
    ELSE ItemLoop(items, i + 1, limit, Append(printed, items[i + 1]), acc \cup {i})

\* the early return of a report: nothing counted, ranked or sampled
NoData ==
    [out |-> <<"header", "nodata">>, tables |-> NoTables, n |-> 0, top |-> <<>>,
     sample |-> <<>>, accessed |-> {}]

Report(events, tbls, k, ranked, loop) ==
    [out |-> events, tables |-> tbls, n |-> k, top |-> ranked,
     sample |-> loop.printed, accessed |-> loop.accessed]

\* NewsAPICrawler.ExplorarDatosNewsAPI
ExplorarDatosNewsAPI(response, order) ==
    IF response.isNil \/ Len(response.list) = 0 THEN NoData
    ELSE LET fuentes == Count(response.list, "SourceName")
         IN  Report(<<"header", "totals", "top", "sample">>,
                    [fuentes |-> fuentes],
                    TopFuentes, getTopN(fuentes, TopFuentes, order),
                    SampleLoop(response.list, 0, <<>>, {}))

\* GuardianCrawler.ExplorarDatosGuardian
ExplorarDatosGuardian(response, order) ==
    IF Len(response.list) = 0 THEN NoData
    ELSE LET secciones == Count(response.list, "SectionName")
         IN  Report(<<"header", "totals", "top", "sample">>,
                    [secciones |-> secciones],
                    TopSecciones, getTopN(secciones, TopSecciones, order),
                    SampleLoop(response.list, 0, <<>>, {}))

\* GDELTCrawler.ExplorarDatos
ExplorarDatos(response, order) ==
    IF response.isNil \/ Len(response.list) = 0 THEN NoData
    ELSE LET dominios == Count(response.list, "Domain")
             idiomas  == Count(response.list, "Language")
             paises   == Count(response.list, "SourceCountry")
         IN  Report(<<"header", "totals", "top", "idiomas", "sample">>,
                    [dominios |-> dominios, idiomas |-> idiomas, paises |-> paises],
                    TopDominios, getTopN(dominios, TopDominios, order),
                    SampleLoop(response.list, 0, <<>>, {}))

\* ExplorarDatosX
ExplorarDatosX(response, order) ==
    IF response.isNil \/ response.resultCount = 0 THEN NoData
    ELSE Report(<<"header", "totals", "sample">>, NoTables, 0, <<>>,
                SampleLoop(response.list, 0, <<>>, {}))

Explorar(s, response, order) ==
    CASE s = "newsapi"  -> ExplorarDatosNewsAPI(response, order)
      [] s = "guardian" -> ExplorarDatosGuardian(response, order)
      [] s = "gdelt"    -> ExplorarDatos(response, order)
      [] s = "x"        -> ExplorarDatosX(response, order)

\* the field a script ranks with getTopN, "" when it ranks none
RankedField(s) ==
    CASE s = "newsapi"  -> "SourceName"
      [] s = "guardian" -> "SectionName"
      [] s = "gdelt"    -> "Domain"
      [] OTHER          -> ""

\* keys of the map a script hands to getTopN
RankedKeys(s, response) ==
    IF RankedField(s) = "" THEN {} ELSE DOMAIN Count(response.list, RankedField(s))

\* the RSS reader's body of one loop iteration after a successful parse
PrintFeed(items) ==
    LET limit == IF Len(items) < RSSLimit THEN Len(items) ELSE RSSLimit
    IN  Report(<<"title", "description", "sample">>, NoTables, 0, <<>>,
               ItemLoop(items, 0, limit, <<>>, {}))

\* the RSS reader's body of one loop iteration after a failed parse
LogFeedError ==
    [out |-> <<"log">>, tables |-> NoTables, n |-> 0, top |-> <<>>,
     sample |-> <<>>, accessed |-> {}]

----------------------------------------------------------------------------
(* One run of a script *)

NoClientTimeout(s) == FALSE

\* every constructor builds its http.Client with a Timeout
ClientTimeout(s) == s \in APIClients

RetryAfterFatal == "start"

NextPageAfterComplete == "start"

\* main falls off its end after the completion message
AfterComplete == "done"

\* main's return after printing the fatal error
AfterFatal == "done"

\* what the client sees of the remote side's behaviour: Client.Timeout turns
\* a hang into a timeout error of the call
Seen(b) == IF b.cause = "hang" THEN [b EXCEPT !.cause = "timeout"] ELSE b

\* whether the call comes back at all: a hang only ends by the timeout
ComesBack(s, b) == b.cause = "hang" => ClientTimeout(s)

\* feeds := []string{...}
Feeds == <<"eltiempo", "larepublica", "bbc", "nytimes", "guardian">>

\* the end of the loop body: the next URL of the range, or main's end
AfterFeed(i) == IF i = NumFeeds THEN "done" ELSE "loop"

StopAfterFeedError(i) == "done"

\* continue
AfterFeedError(i) == AfterFeed(i)

Init ==
    /\ script \in Scripts
    /\ server \in IF script = "rss" THEN {Pending} ELSE Behaviours(script)
    /\ pc = IF script = "rss" THEN "loop" ELSE "start"
    /\ requests = 0
    /\ net = Pending
    /\ fetched = NoFetch
    /\ tables = NoTables
    /\ n = 0
    /\ top = <<>>
    /\ sample = <<>>
    /\ accessed = {}
    /\ out = <<>>
    /\ feedIdx = 1
    /\ attempted = <<>>

\* main up to the blocking Client.Do / Client.Get inside the fetch operation:
\* the query is printed, the request is built and sent.  http.NewRequest is
\* given the method "GET" and the fixed base URL with url.Values.Encode()
\* behind it, which always parse, so its error return is never taken.
Request ==
    /\ script \in APIClients
    /\ pc = "start"
    /\ net' = [Pending EXCEPT !.state = "inflight"]
    /\ requests' = requests + 1
    /\ out' = Append(out, "query")
    /\ pc' = "awaiting"
    /\ UNCHANGED <<script, attempted, server, fetched, tables, n, top, sample, accessed, feedIdx>>

\* the call comes back and the fetch operation runs to its return
Respond ==
    /\ script \in APIClients
    /\ pc = "awaiting"
    /\ ComesBack(script, server)
    /\ net' = Seen(server)
    /\ fetched' = Buscar(script, Seen(server))
    /\ pc' = "returned"
    /\ UNCHANGED <<script, attempted, server, requests, tables, n, top, sample, accessed, out, feedIdx>>

\* main: if err != nil { print the fatal error; return }
MainError ==
    /\ script \in APIClients
    /\ pc = "returned"
    /\ ~fetched.err.isNil
    /\ out' = out \o <<"fatal", "error">>
    /\ pc' = AfterFatal
    /\ UNCHANGED <<script, attempted, server, requests, net, fetched, tables, n, top, sample, accessed, feedIdx>>

\* main: the report operation on the fetched response
MainExplore ==
    /\ script \in APIClients
    /\ pc = "returned"
    /\ fetched.err.isNil
    /\ \E e \in {Explorar(script, fetched.response, order) :
                    order \in Orders(RankedKeys(script, fetched.response))} :
              /\ tables' = e.tables
              /\ n' = e.n
              /\ top' = e.top
              /\ sample' = e.sample
              /\ accessed' = e.accessed
              /\ out' = out \o e.out
    /\ pc' = "reported"
    /\ UNCHANGED <<script, attempted, server, requests, net, fetched, feedIdx>>

\* main: fmt.Println("Exploración completada.")
MainComplete ==
    /\ script \in APIClients
    /\ pc = "reported"
    /\ out' = Append(out, "completed")
    /\ pc' = AfterComplete
    /\ UNCHANGED <<script, attempted, server, requests, net, fetched, tables, n, top, sample, accessed, feedIdx>>

\* RSS reader: top of one loop iteration up to the blocking parser.ParseURL
FeedRequest ==
    /\ script = "rss"
    /\ pc = "loop"
    /\ feedIdx <= NumFeeds
    /\ net' = [Pending EXCEPT !.state = "inflight"]
    /\ requests' = requests + 1
    /\ out' = Append(out, "feed")
    /\ attempted' = Append(attempted, Feeds[feedIdx])
    /\ pc' = "awaiting"
    /\ UNCHANGED <<script, server, fetched, tables, n, top, sample, accessed, feedIdx>>

\* RSS reader: ParseURL comes back and the iteration runs to its end
FeedRespond ==
    /\ script = "rss"
    /\ pc = "awaiting"
    /\ \E r \in FeedOutcomes :
          \E e \in {IF r.state = "answered" THEN PrintFeed(r.body.list) ELSE LogFeedError} :
              /\ net' = r
              /\ sample' = e.sample
              /\ accessed' = e.accessed
              /\ out' = out \o e.out
              /\ pc' = IF r.state = "answered" THEN AfterFeed(feedIdx)
                        ELSE AfterFeedError(feedIdx)
    /\ feedIdx' = feedIdx + 1
    /\ UNCHANGED <<script, attempted, server, requests, fetched, tables, n, top>>

Next ==
    \/ Request
    \/ Respond
    \/ MainError
    \/ MainExplore
    \/ MainComplete
    \/ FeedRequest
    \/ FeedRespond

Spec == Init /\ [][Next]_vars

\* a sequential program keeps running while it has a step to take
FairSpec == Spec /\ WF_vars(Next)

----------------------------------------------------------------------------
(* The aggregator on its own: count a record list, rank it with any n *)

SrcRecords == {[src |-> v] : v \in {"A", "B", "C"}}

InitTopN ==
    /\ script = "aggregator"
    /\ server = Pending
    /\ pc = "input"
    /\ requests = 0
    /\ net = Pending
    /\ \E l \in SeqsUpTo(SrcRecords, MaxRecs) :
          fetched = Decoded([valid |-> TRUE, status |-> "", list |-> l, resultCount |-> 0])
    /\ tables = NoTables
    /\ n \in 0..MaxN
    /\ top = <<>>
    /\ sample = <<>>
    /\ accessed = {}
    /\ out = <<>>
    /\ feedIdx = 1
    /\ attempted = <<>>

\* the counting loop of a report over the field src
CountSrc ==
    /\ pc = "input"
    /\ tables' = [src |-> Count(fetched.response.list, "src")]
    /\ pc' = "counted"
    /\ UNCHANGED <<script, attempted, server, requests, net, fetched, n, top, sample, accessed, out, feedIdx>>

\* getTopN(m, n) under some iteration order of the map
RankSrc ==
    /\ pc = "counted"
    /\ \E order \in Orders(DOMAIN tables.src) : top' = getTopN(tables.src, n, order)
    /\ pc' = "ranked"
    /\ UNCHANGED <<script, attempted, server, requests, net, fetched, tables, n, sample, accessed, out, feedIdx>>

NextTopN == CountSrc \/ RankSrc

SpecTopN == InitTopN /\ [][NextTopN]_vars

----------------------------------------------------------------------------
(* Properties of getTopN, under SpecTopN *)

\* number of records of list whose field f carries value v
Carrying(list, f, v) == Cardinality({i \in DOMAIN list : list[i][f] = v})

Keys(kv) == {kv[i].Key : i \in DOMAIN kv}

Scenario ==
    << [src |-> "A"], [src |-> "B"], [src |-> "A"], [src |-> "C"], [src |-> "A"], [src |-> "B"] >>

\* C1: getTopN(m, n) returns highest-count entries of m: each returned entry is
\* (key, m[key]), no key comes twice, no entry left out has a count strictly
\* greater than a returned one; records A,B,A,C,A,B with n = 2 give exactly
\* [(A,3), (B,2)].
C1_TopNHighest ==
    pc = "ranked" =>
        LET m == tables.src
        IN  /\ \A i \in DOMAIN top : top[i].Key \in DOMAIN m /\ top[i].Value = m[top[i].Key]
            /\ \A i, j \in DOMAIN top : i # j => top[i].Key # top[j].Key
            /\ \A k \in DOMAIN m \ Keys(top) : \A i \in DOMAIN top : ~(m[k] > top[i].Value)
            /\ (fetched.response.list = Scenario /\ n = 2) =>
                   top = << [Key |-> "A", Value |-> 3], [Key |-> "B", Value |-> 2] >>

C1_Witness ==
    /\ pc = "ranked"
    /\ fetched.response.list = Scenario
    /\ n = 2
    /\ top = << [Key |-> "A", Value |-> 3], [Key |-> "B", Value |-> 2] >>

\* C2: the sequence getTopN returns is non-increasing in count: for all
\* positions i < j, result[i].Value >= result[j].Value.
C2_NonIncreasing ==
    pc = "ranked" =>
        \A i, j \in DOMAIN top : i < j => top[i].Value >= top[j].Value

C2_Witness ==
    /\ pc = "ranked"
    /\ Len(top) = 3
    /\ top[1].Value > top[2].Value
    /\ top[2].Value > top[3].Value

\* C3: the length of getTopN(m, n) is min(n, number of distinct keys): empty
\* for an empty table, empty for n = 0, all distinct values when n is larger.
C3_Length ==
    pc = "ranked" =>
        LET list == fetched.response.list
            distinct == Cardinality({list[i].src : i \in DOMAIN list})
        IN  Len(top) = Min(n, distinct)

C3_Witness ==
    /\ pc = "ranked"
    /\ Cardinality(DOMAIN tables.src) = 2
    /\ n > 2
    /\ Len(top) = 2

----------------------------------------------------------------------------
(* Properties of a run, under Spec and FairSpec *)

RECURSIVE SumCounts(_)
SumCounts(m) ==
    IF DOMAIN m = {} THEN 0
    ELSE LET k == CHOOSE x \in DOMAIN m : TRUE
         IN  m[k] + SumCounts([x \in DOMAIN m \ {k} |-> m[x]])

\* the tables each report builds and the field each table counts
TablesOf(s) ==
    CASE s = "newsapi"  -> {"fuentes"}
      [] s = "guardian" -> {"secciones"}
      [] s = "gdelt"    -> {"dominios", "idiomas", "paises"}
      [] OTHER          -> {}

FieldOf(t) ==
    CASE t = "fuentes"   -> "SourceName"
      [] t = "secciones" -> "SectionName"
      [] t = "dominios"  -> "Domain"
      [] t = "idiomas"   -> "Language"
      [] t = "paises"    -> "SourceCountry"

\* events of a report and of the completion message
ReportEvents == {"header", "nodata", "totals", "top", "idiomas", "sample", "completed"}

Reported == pc \in {"reported", "done"} /\ fetched.err.isNil

\* C4: after the counting loop of a report has processed a record list, every
\* record has contributed one increment to each table: the counts of a table
\* sum to the number of records and the count of a key is the number of
\* records carrying it, an empty field counting under the empty-string key.
C4_CountsSum ==
    (script \in APIClients /\ Reported /\ Len(fetched.response.list) > 0
        /\ TablesOf(script) # {}) =>
        LET list == fetched.response.list
        IN  /\ DOMAIN tables = TablesOf(script)
            /\ \A t \in DOMAIN tables :
                  /\ SumCounts(tables[t]) = Len(list)
                  /\ \A i \in DOMAIN list : list[i][FieldOf(t)] \in DOMAIN tables[t]
                  /\ \A k \in DOMAIN tables[t] :
                        tables[t][k] = Carrying(list, FieldOf(t), k)

C4_Witness ==
    /\ script = "gdelt"
    /\ Reported
    /\ Len(fetched.response.list) = 4
    /\ "" \in DOMAIN tables.dominios
    /\ tables.dominios[""] = 2
    /\ tables.idiomas["en"] = 2

\* C5: in every API client's fetch operation a non-success HTTP status makes
\* the operation return an error before JSON decoding is attempted, and the
\* error contains the numeric status code.
C5_StatusShortCircuits ==
    (script \in APIClients /\ pc \in {"returned", "reported", "done"}
        /\ net.state = "answered" /\ net.code # StatusOK) =>
        /\ ~fetched.err.isNil
        /\ fetched.unmarshal = "not called"
        /\ ToString(net.code) \in Range(fetched.err.msg)

\* C6: a successfully decoded payload whose embedded status is not "ok" makes
\* the fetch operation return an error containing the word "error" and a nil
\* response, whatever articles the payload carried.
C6_EmbeddedStatusFatal ==
    (script \in {"newsapi", "guardian"} /\ fetched.unmarshal = "ok"
        /\ net.body.status # "ok") =>
        /\ ~fetched.err.isNil
        /\ "error" \in Range(fetched.err.msg)
        /\ fetched.response.isNil
        /\ fetched.response.list = <<>>

C6_Witness ==
    /\ script = "guardian"
    /\ pc = "done"
    /\ fetched.unmarshal = "ok"
    /\ net.body.status = ""
    /\ Len(net.body.list) = 2
    /\ fetched.response.isNil
    /\ "fatal" \in Range(out)

C8_OneRequest ==
    script \in APIClients =>
        /\ requests <= 1
        /\ pc # "start" => requests = 1
        /\ (fetched.unmarshal # "not called" \/ Range(out) \cap ReportEvents # {}) =>
               net.state = "answered"
        /\ pc = "done" => requests = 1 /\ ~ENABLED Next

C8_Witness ==
    /\ script = "gdelt"
    /\ pc = "done"
    /\ requests = 1
    /\ "completed" \in Range(out)
    /\ Len(sample) = SampleSize

\* the run ended with the completion message after a report
EndedCompleted ==
    /\ Len(out) >= 3
    /\ out[Len(out)] = "completed"
    /\ "header" \in Range(out)
    /\ "fatal" \notin Range(out)

\* the run ended with the reported fatal error and nothing of a report
EndedFatal ==
    /\ Len(out) >= 2
    /\ SubSeq(out, Len(out) - 1, Len(out)) = <<"fatal", "error">>
    /\ Range(out) \cap ReportEvents = {}

C9_FinalState ==
    /\ (script \in APIClients /\ pc = "done") =>
          /\ EndedCompleted \/ EndedFatal
          /\ net.cause = "timeout" => EndedFatal
    /\ (script = "rss" /\ pc = "done") =>
          /\ requests = NumFeeds
          /\ {"completed", "fatal"} \cap Range(out) = {}

C10_SampleIsPrefix ==
    /\ (script \in APIClients /\ Reported) =>
          LET list == fetched.response.list
          IN  /\ sample = SubSeq(list, 1, Min(SampleSize, Len(list)))
              /\ accessed \subseteq 0..(Len(list) - 1)
    /\ (script = "rss" /\ net.state = "answered") =>
          LET items == net.body.list
          IN  /\ sample = SubSeq(items, 1, Min(RSSLimit, Len(items)))
              /\ accessed \subseteq 0..(Len(items) - 1)

\* the fetch operation has returned to main
Returned == script \in APIClients /\ pc \in {"returned", "reported", "done"}

\* the report operation has been invoked: it has printed its header
ReportInvoked == "header" \in Range(out)

\* C11: every fetch operation of an API client returns exactly one of a
\* response and an error (response non-nil and error nil, or response nil and
\* error non-nil); a decode failure discards the whole response, so the report
\* operation is never invoked with a partially populated record list.
C11_ResultXorError ==
    /\ Returned =>
          /\ fetched.response.isNil # fetched.err.isNil
          /\ fetched.response.isNil => fetched.response = NilResponse
          /\ fetched.err.isNil => fetched.err = NilErr
          /\ (net.state = "answered" /\ net.code = StatusOK /\ ~net.body.valid)
                => fetched.unmarshal = "failed"
          /\ fetched.unmarshal = "failed" => fetched.response.isNil /\ ~fetched.err.isNil
    /\ (script \in APIClients /\ ReportInvoked) =>
          /\ fetched.unmarshal = "ok"
          /\ net.body.valid
          /\ ~fetched.response.isNil
          /\ fetched.response.list = net.body.list

\* a body whose decoding failed after one record was read ends in the fatal
\* error without a report
C11_Witness ==
    /\ script = "gdelt"
    /\ pc = "done"
    /\ net.state = "answered" /\ ~net.body.valid /\ Len(net.body.list) = 1
    /\ fetched.unmarshal = "failed"
    /\ fetched.response.isNil /\ ~fetched.err.isNil
    /\ ~ReportInvoked

\* C12: on a decode failure the error of a fetch operation carries a preview
\* of the raw body: the whole body when the body is at most 500 bytes long,
\* otherwise exactly the first 500 bytes of the body followed by "...", and
\* never more than 503 bytes.
C12_Preview ==
    (script \in APIClients /\ fetched.unmarshal = "failed") =>
        LET z == net.body.size
            p == fetched.err.preview
        IN  /\ "<preview>" \in Range(fetched.err.msg)
            /\ z <= 500 => p.head = z /\ p.tail = <<>>
            /\ z > 500 => p.head = 500 /\ p.tail = <<".", ".", ".">>
            /\ p.head + Len(p.tail) <= 503

\* a rejected body of 501 bytes was cut to 500 bytes and "..."
C12_Witness ==
    /\ script \in APIClients
    /\ fetched.unmarshal = "failed"
    /\ net.body.size = 501
    /\ fetched.err.preview = [head |-> 500, tail |-> <<".", ".", ".">>]

\* positions of out where the header of a feed was printed
FeedHeaders == {i \in DOMAIN out : out[i] = "feed"}

\* what was written for the feed whose header is at position i of out
FeedSegment(i) ==
    LET later == {j \in FeedHeaders : j > i}
        end == IF later = {} THEN Len(out) ELSE (CHOOSE j \in later : \A k \in later : j <= k) - 1
    IN  SubSeq(out, i + 1, end)

\* C13: the RSS reader attempts every URL of its fixed feed list exactly once,
\* in list order; when parsing a feed fails the failure is logged, nothing of
\* that feed (title, description, items) is printed, and the loop proceeds to
\* the next feed, so a failed feed never keeps the later feeds from being read.
C13_EveryFeedOnce ==
    script = "rss" =>
        /\ attempted = SubSeq(Feeds, 1, requests)
        /\ \A i, j \in DOMAIN attempted : i # j => attempted[i] # attempted[j]
        /\ Cardinality(FeedHeaders) = requests
        /\ pc = "done" => attempted = Feeds
        /\ pc = "loop" => requests < NumFeeds /\ feedIdx = requests + 1 /\ ENABLED FeedRequest
        /\ pc = "awaiting" => feedIdx = requests /\ FeedSegment(Len(out)) = <<>>
        /\ \A i \in FeedHeaders :
              FeedSegment(i) \in {<<>>, <<"log">>, <<"title", "description", "sample">>}
        /\ (pc \in {"loop", "done"} /\ net.state = "doError") =>
              /\ Len(out) >= 2
              /\ SubSeq(out, Len(out) - 1, Len(out)) = <<"feed", "log">>
              /\ sample = <<>> /\ accessed = {}
              /\ requests < NumFeeds => pc = "loop"

\* the first feed failed and was only logged, the last feed was read and printed
C13_Witness ==
    /\ script = "rss"
    /\ pc = "done"
    /\ attempted = Feeds
    /\ SubSeq(out, 1, 3) = <<"feed", "log", "feed">>
    /\ net.state = "answered"
    /\ Len(sample) = RSSLimit

====
